---- MODULE Spec2Model ----
(***************************************************************************)
(* Model of pkg/capabilities/capabilities.go: the protection-ring manager   *)
(* of tracee.  The manager (the singleton Caps) keeps a table              *)
(* all[capability][ring], a snapshot `have` of the process capability set, *)
(* a bypass flag and one big lock.  Callers run callbacks inside a ring    *)
(* (Privileged, Required, Requested); the ring's column of the table is    *)
(* made the effective set for the callback and Unprivileged afterwards.    *)
(*                                                                         *)
(* The libcap calls (cap.GetPID, Set.SetFlag, Set.SetProc, cap.DropBound)  *)
(* are modelled by their effect on the process state `proc`; each of the   *)
(* calls that reaches the kernel can fail, which is an input of the step.  *)
(***************************************************************************)
EXTENDS Integers, Sequences, FiniteSets, TLC

\* ------------------------------------------------------------------ bounds

\* Number of concurrent callers (goroutines) of the public methods.
NumCallers == 2
\* cap.MaxBits(): capabilities are the values 0 .. MaxBits-1.
MaxBits == 5
\* Number of libcap calls that fail in one behaviour.
MaxFaults == 1
\* Number of NewCapabilities calls in one behaviour.
MaxInits == 2

\* ------------------------------------------------------------ rings, caps

\* ringType (iota)
Privileged == 0
Required == 1
Requested == 2
Unprivileged == 3

Rings == {Privileged, Required, Requested, Unprivileged}

\* The cap.Value constants the package names, renumbered densely in the
\* order of the libcap enumeration (IPC_LOCK < SYS_ADMIN < SYS_RESOURCE <
\* PERFMON < BPF).
IPC_LOCK == 0
SYS_ADMIN == 1
SYS_RESOURCE == 2
PERFMON == 3
BPF == 4

Capability == 0 .. (MaxBits - 1)

Callers == 1 .. NumCallers

\* ------------------------------------------------------------------ state

VARIABLES
    Caps,      \* the singleton: [have, all, bypass, initialized, lock]
    proc,      \* the process state the kernel holds: [eff, perm, bound]
    paranoid,  \* /proc/sys/kernel/perf_event_paranoid: [ok, data]
    call,      \* call[t]: the call caller t is in, and its locals
    init,      \* the last NewCapabilities call: [calls, bypass, err, fault]
    windows,   \* calls that applied their ring and have not applied Unprivileged
    faults,    \* libcap calls that have failed so far
    thread,    \* thread[t]: the OS thread that runs the goroutine of caller t
    query      \* the last ReqByString call: [asked, values, caps, err]

vars == <<Caps, proc, paranoid, call, init, windows, faults, thread, query>>

\* A nil *cap.Set, and a set as cap.GetPID(0) returns it.
NilSet == [nil |-> TRUE, eff |-> {}, perm |-> {}]

\* A nil map[cap.Value]map[ringType]bool: no keys.
NilMap == [v \in {} |-> [t \in {} |-> FALSE]]

\* Capabilities{}: the zero value of the struct.
ZeroCaps ==
    [have |-> NilSet, all |-> NilMap, bypass |-> FALSE,
     initialized |-> FALSE, lock |-> "nil"]

\* What a caller that is in no call holds.
Idle ==
    [pc |-> "idle", op |-> "none", values |-> {}, errCb |-> "nil",
     err |-> "nil", seen |-> {}, cbs |-> 0, locked |-> {}, elevOn |-> 0]

\* What a caller holds when its call has returned err.
Done(err) == [Idle EXCEPT !.pc = "done", !.err = err]

\* ------------------------------------------------------- the lock (l. 38)

\* c.lock.Lock() returns only when the mutex is unlocked.
CanLock_noMutex(c) == c.lock # "nil"

CanLock(c) == c.lock = "unlocked"

Lock(c) == [c EXCEPT !.lock = "locked"]

Unlock(c) == [c EXCEPT !.lock = "unlocked"]

\* defer c.lock.Unlock() (l. 124, 150, 180): runs on every return of the
\* method that took the lock.
DeferredUnlock_missing(c) == c

DeferredUnlock(c) == Unlock(c)

\* ---------------------------------------------------- private methods

\* The column of ring t: the capabilities v with c.all[v][t].
Column(c, t) == {v \in DOMAIN c.all : c.all[v][t]}

\* getProc: c.have, err = cap.GetPID(0); on failure GetPID returns nil.
getProc(c, p, fail) ==
    IF fail
    THEN [c |-> [c EXCEPT !.have = NilSet], err |-> "couldNotGetProc"]
    ELSE [c |-> [c EXCEPT !.have = [nil |-> FALSE, eff |-> p.eff, perm |-> p.perm]],
          err |-> "nil"]

\* (a SetProc that has written the effective set when it reports its failure)
setProc_commitsThenFails(c, p, fail) ==
    IF ~(c.have.eff \subseteq p.perm)
    THEN [p |-> p, err |-> "couldNotSetProc"]
    ELSE [p |-> [p EXCEPT !.eff = c.have.eff],
          err |-> IF fail THEN "couldNotSetProc" ELSE "nil"]

\* setProc: c.have.SetProc().  The kernel refuses (EPERM) an effective set
\* that is not within the permitted set; a refused call changes nothing.
setProc(c, p, fail) ==
    IF fail \/ ~(c.have.eff \subseteq p.perm)
    THEN [p |-> p, err |-> "couldNotSetProc"]
    ELSE [p |-> [p EXCEPT !.eff = c.have.eff], err |-> "nil"]

\* set: c.all[v][t] = true for every v of values.
set_everyRing(c, t, values) ==
    [c EXCEPT !.all = [v \in DOMAIN c.all |->
        IF v \in values THEN [r \in Rings |-> TRUE] ELSE c.all[v]]]

set(c, t, values) ==
    [c EXCEPT !.all = [v \in DOMAIN c.all |->
        IF v \in values THEN [c.all[v] EXCEPT ![t] = TRUE] ELSE c.all[v]]]

\* unset: c.all[v][t] = false for every v of values.
unset_wholeRow(c, t, values) ==
    [c EXCEPT !.all = [v \in DOMAIN c.all |->
        IF v \in values THEN [r \in Rings |-> FALSE] ELSE c.all[v]]]

unset(c, t, values) ==
    [c EXCEPT !.all = [v \in DOMAIN c.all |->
        IF v \in values THEN [c.all[v] EXCEPT ![t] = FALSE] ELSE c.all[v]]]

\* The loop of apply: SetFlag(cap.Effective, v[t], k) for every k of c.all.
setFlags_allOn(c, t) == [c EXCEPT !.have.eff = DOMAIN c.all]

setFlags(c, t) == [c EXCEPT !.have.eff = Column(c, t)]

\* apply: getProc, the SetFlag loop, setProc.  fault names the libcap call
\* that fails in this apply ("none", "getProc" or "setProc").
apply(c, p, t, fault) ==
    LET g == getProc(c, p, fault = "getProc")
    IN  IF g.err # "nil"
        THEN [c |-> g.c, p |-> p, err |-> g.err]
        ELSE LET c1 == setFlags(g.c, t)
                 s == setProc(c1, p, fault = "setProc")
             IN  [c |-> c1, p |-> s.p, err |-> s.err]

ApplyFaults == {"none", "getProc", "setProc"}

\* ------------------------------------------------ setters (l. 213-243)

\* Require: no-op in bypass; else lock, set(Required, values), unlock.
Require_ignoreBypass(c, values) == Unlock(set(Lock(c), Required, values))

Require(c, values) ==
    IF c.bypass THEN c ELSE Unlock(set(Lock(c), Required, values))

\* Unrequire: no-op in bypass; else lock, unset(Required, values), unlock.
Unrequire(c, values) ==
    IF c.bypass THEN c ELSE Unlock(unset(Lock(c), Required, values))

\* ------------------------------------- perf_event_paranoid (l. 367-389)

MaxParanoiaLevel == 4

DigitChars == <<"0", "1", "2", "3", "4", "5", "6", "7", "8", "9">>

IsDigit(ch) == \E i \in 1 .. 10 : DigitChars[i] = ch

DigitVal(ch) == (CHOOSE i \in 1 .. 10 : DigitChars[i] = ch) - 1

\* strings.TrimSuffix(s, "\n"): one trailing newline is removed.
TrimSuffix(s) ==
    IF Len(s) > 0 /\ s[Len(s)] = "\n" THEN SubSeq(s, 1, Len(s) - 1) ELSE s

RECURSIVE Magnitude(_, _)
Magnitude(digits, base) ==
    IF digits = <<>> THEN 0
    ELSE Magnitude(SubSeq(digits, 1, Len(digits) - 1), base) * base
         + DigitVal(digits[Len(digits)])

\* strconv.ParseInt(s, 0, 16) on the characters + - 0..9 and anything else:
\* an optional sign, base 8 after a leading 0 and base 10 otherwise, at
\* least one digit, and a value that fits 16 bits.
ParseInt(s) ==
    LET signed == Len(s) > 0 /\ s[1] \in {"+", "-"}
        body == IF signed THEN Tail(s) ELSE s
        base == IF Len(body) > 1 /\ body[1] = "0" THEN 8 ELSE 10
        digits == IF base = 8 THEN Tail(body) ELSE body
        wellFormed ==
            /\ Len(digits) > 0
            /\ \A i \in 1 .. Len(digits) :
                 IsDigit(digits[i]) /\ DigitVal(digits[i]) < base
        mag == Magnitude(digits, base)
        val == IF signed /\ s[1] = "-" THEN 0 - mag ELSE mag
    IN  IF wellFormed /\ val >= 0 - 32768 /\ val <= 32767
        THEN [ok |-> TRUE, val |-> val]
        ELSE [ok |-> FALSE, val |-> 0]

\* getKernelPerfEventParanoidValue: the value of the file, or
\* MaxParanoiaLevel and an error when it cannot be read or parsed.
getKernelPerfEventParanoidValue_zeroOnError(file) ==
    IF ~file.ok
    THEN [val |-> 0, err |-> "couldNotReadPerfEventParanoid"]
    ELSE LET r == ParseInt(TrimSuffix(file.data))
         IN  IF r.ok
             THEN [val |-> r.val, err |-> "nil"]
             ELSE [val |-> 0, err |-> "couldNotReadPerfEventParanoid"]

getKernelPerfEventParanoidValue(file) ==
    IF ~file.ok
    THEN [val |-> MaxParanoiaLevel, err |-> "couldNotReadPerfEventParanoid"]
    ELSE LET r == ParseInt(TrimSuffix(file.data))
         IN  IF r.ok
             THEN [val |-> r.val, err |-> "nil"]
             ELSE [val |-> MaxParanoiaLevel, err |-> "couldNotReadPerfEventParanoid"]

\* ------------------------------------------- initialize (l. 41-114)

\* for c := range c.all { cap.DropBound(c) }: the result of DropBound is
\* not looked at.  DropBound needs CAP_SETPCAP, so it fails for every
\* capability or for none.
DropBoundAll(c, p, fail) ==
    IF fail THEN p ELSE [p EXCEPT !.bound = p.bound \ DOMAIN c.all]

InitFaults == {"none", "getProc", "dropBound", "setProc", "applyGetProc", "applySetProc"}

\* The base of the Required ring (l. 80-111).
bootstrap_fromTwo(c, file) ==
    LET c1 == Require(c, {IPC_LOCK, SYS_RESOURCE})
        level == getKernelPerfEventParanoidValue(file)
        c2 == IF level.val >= 2 THEN Require(c1, {SYS_ADMIN}) ELSE c1
        hasBPF == BPF \in c2.have.perm
    IN  IF hasBPF THEN Require(c2, {BPF, PERFMON}) ELSE Require(c2, {SYS_ADMIN})

bootstrap(c, file) ==
    LET c1 == Require(c, {IPC_LOCK, SYS_RESOURCE})
        level == getKernelPerfEventParanoidValue(file)
        c2 == IF level.val > 2 THEN Require(c1, {SYS_ADMIN}) ELSE c1
        hasBPF == BPF \in c2.have.perm
    IN  IF hasBPF THEN Require(c2, {BPF, PERFMON}) ELSE Require(c2, {SYS_ADMIN})

initialize(c, p, bypass, file, fault) ==
    IF bypass
    THEN [c |-> [c EXCEPT !.bypass = TRUE], p |-> p, err |-> "nil"]
    ELSE IF c.initialized
    THEN [c |-> c, p |-> p, err |-> "alreadyInitialized"]
    ELSE LET c1 == [c EXCEPT !.lock = "unlocked",
                             !.all = [v \in Capability |->
                                        [t \in Rings |-> t = Privileged]]]
             g == getProc(c1, p, fault = "getProc")
         IN  IF g.err # "nil"
             THEN [c |-> g.c, p |-> p, err |-> g.err]
             ELSE LET p1 == DropBoundAll(g.c, p, fault = "dropBound")
                      s == setProc(g.c, p1, fault = "setProc")
                  IN  IF s.err # "nil"
                      THEN [c |-> g.c, p |-> s.p, err |-> s.err]
                      ELSE LET c2 == bootstrap(g.c, file)
                               a == apply(c2, s.p, Unprivileged,
                                          IF fault = "applyGetProc" THEN "getProc"
                                          ELSE IF fault = "applySetProc" THEN "setProc"
                                          ELSE "none")
                           IN  [c |-> a.c, p |-> a.p, err |-> a.err]

\* ------------------------------------------- ReqByString (l. 334-352)

\* Longest argument list ReqByString is called with.
MaxNames == 2

\* cap.Value.String(): the libcap name of a named capability, the decimal
\* number of one libcap has no name for.
CapNames ==
    <<"cap_ipc_lock", "cap_sys_admin", "cap_sys_resource", "cap_perfmon", "cap_bpf">>

String(v) == IF v < Len(CapNames) THEN CapNames[v + 1] ELSE ToString(v)

NoError == [kind |-> "nil", cap |-> ""]

\* couldNotFindCapability(cap): the error carries the name.
couldNotFindCapability(cap) == [kind |-> "couldNotFindCapability", cap |-> cap]

\* The inner loop: every v from v0 up to MaxBits whose String() is given,
\* appended in ascending order.
RECURSIVE Matching(_, _)
Matching(v0, given) ==
    IF v0 >= MaxBits
    THEN <<>>
    ELSE (IF String(v0) = given THEN <<v0>> ELSE <<>>) \o Matching(v0 + 1, given)

\* The outer loop from values[i] on (skipping names no capability has).
RECURSIVE ReqByStringFrom_skipUnknown(_, _, _)
ReqByStringFrom_skipUnknown(values, i, capsToActOn) ==
    IF i > Len(values)
    THEN [caps |-> capsToActOn, err |-> NoError]
    ELSE ReqByStringFrom_skipUnknown(values, i + 1,
                                     capsToActOn \o Matching(0, values[i]))

\* The outer loop from values[i] on: found stays false when no v matched,
\* and then nil and the error are returned.
RECURSIVE ReqByStringFrom(_, _, _)
ReqByStringFrom(values, i, capsToActOn) ==
    IF i > Len(values)
    THEN [caps |-> capsToActOn, err |-> NoError]
    ELSE LET found == Matching(0, values[i])
         IN  IF found = <<>>
             THEN [caps |-> <<>>, err |-> couldNotFindCapability(values[i])]
             ELSE ReqByStringFrom(values, i + 1, capsToActOn \o found)

ReqByString(values) == ReqByStringFrom(values, 1, <<>>)

\* No ReqByString call has been made.
NoQuery == [asked |-> FALSE, values |-> <<>>, caps |-> <<>>, err |-> NoError]

\* ------------------------------------------------------ the environment

\* The permitted set of the process: every capability, or all but BPF (a
\* kernel without CAP_BPF).
PermittedSets == {Capability, Capability \ {BPF}}

\* Contents of /proc/sys/kernel/perf_event_paranoid (ok: the read succeeded);
\* the kernel's default is 2.
ParanoidFiles == {[ok |-> TRUE, data |-> <<"2", "\n">>]}

\* The capabilities callers pass to Requested.
RequestedInputs == {{SYS_ADMIN}, {IPC_LOCK}}

\* The capabilities callers pass to Require and Unrequire.
RequireInputs == {{SYS_ADMIN}}

\* The names callers pass to ReqByString: two names of capabilities, a name
\* in the wrong case and a name of no capability.
NameInputs ==
    LET names == {String(IPC_LOCK), String(BPF), "CAP_BPF", "cap_bogus"}
    IN  UNION {[1 .. n -> names] : n \in 0 .. MaxNames}

\* Number of OS threads the Go runtime runs goroutines on.
NumThreads == 2

Threads == 1 .. NumThreads

\* A libcap call may fail only while the behaviour's budget of failures lasts.
FaultOK(fault) == fault = "none" \/ faults < MaxFaults

Count(fault) == IF fault = "none" THEN 0 ELSE 1

Init ==
    /\ Caps = ZeroCaps
    /\ proc \in {[eff |-> P, perm |-> P, bound |-> Capability] : P \in PermittedSets}
    /\ paranoid \in ParanoidFiles
    /\ call = [t \in Callers |-> Idle]
    /\ init = [calls |-> 0, bypass |-> FALSE, err |-> "none", fault |-> "none"]
    /\ windows = 0
    /\ faults = 0
    /\ thread = [t \in Callers |-> 1]
    /\ query = NoQuery

\* --------------------------------------------------------------- actions

\* NewCapabilities(bypass): Caps = Capabilities{}; Caps.initialize(bypass).
\* Called at startup, while no caller is inside the package.
NewCapabilities(bypass) ==
    /\ init.calls < MaxInits
    /\ \A t \in Callers : call[t].pc = "idle"
    /\ \E fault \in InitFaults :
         /\ FaultOK(fault)
         /\ bypass => fault = "none"
         /\ LET r == initialize(ZeroCaps, proc, bypass, paranoid, fault)
            IN  /\ Caps' = r.c
                /\ proc' = r.p
                /\ init' = [calls |-> init.calls + 1, bypass |-> bypass,
                            err |-> r.err, fault |-> fault]
                /\ faults' = faults + Count(fault)
    /\ UNCHANGED <<paranoid, thread, query, call, windows>>

\* The manager is usable once NewCapabilities has returned nil.
Ready == init.calls > 0 /\ init.err = "nil"

\* A caller enters one of the public methods.
Invoke(t) ==
    /\ Ready
    /\ call[t].pc = "idle"
    /\ \/ \E op \in {"Privileged", "Required"} :
            call' = [call EXCEPT ![t] = [Idle EXCEPT !.pc = "enter", !.op = op]]
       \/ \E values \in RequestedInputs :
            call' = [call EXCEPT ![t] =
                        [Idle EXCEPT !.pc = "enter", !.op = "Requested", !.values = values]]
       \/ \E op \in {"Require", "Unrequire"}, values \in RequireInputs :
            call' = [call EXCEPT ![t] =
                        [Idle EXCEPT !.pc = "enter", !.op = op, !.values = values]]
    /\ UNCHANGED <<Caps, proc, paranoid, thread, query, init, windows, faults>>

\* What a run-in-ring method returns after the callback: the error of the
\* restoring apply if there is one, else the callback's (l. 135-141).
ReturnValue_callbackFirst(err, errCb) == IF errCb # "nil" THEN errCb ELSE err

ReturnValue_dropsRestoreError(err, errCb) == errCb

ReturnValue(err, errCb) == IF err # "nil" THEN err ELSE errCb

\* The ring applied after the callback (l. 135, 161, 199).
RestoreRing_required == Required

RestoreRing == Unprivileged

\* Privileged / Required up to the callback (l. 122-130, 148-156): in bypass
\* nothing; else lock, apply(ring), and return the error of a failed apply
\* (the deferred Unlock runs).
RingEnter(t, ring) ==
    /\ call[t].pc = "enter"
    /\ IF Caps.bypass
       THEN /\ call' = [call EXCEPT ![t].pc = "callback"]
            /\ UNCHANGED <<Caps, proc, windows, faults>>
       ELSE /\ CanLock(Caps)
            /\ \E fault \in ApplyFaults :
                 /\ FaultOK(fault)
                 /\ LET a == apply(Lock(Caps), proc, ring, fault)
                    IN  /\ proc' = a.p
                        /\ faults' = faults + Count(fault)
                        /\ IF a.err # "nil"
                           THEN /\ Caps' = DeferredUnlock(a.c)
                                /\ call' = [call EXCEPT ![t] = Done(a.err)]
                                /\ UNCHANGED windows
                           ELSE /\ Caps' = a.c
                                /\ call' = [call EXCEPT ![t].pc = "callback",
                                                        ![t].locked = Column(Caps, Required),
                                                        ![t].elevOn = thread[t]]
                                /\ windows' = windows + 1
    /\ UNCHANGED <<paranoid, thread, query, init>>

\* Requested up to the callback (l. 178-194): in bypass nothing; else lock,
\* set(Requested, values), apply(Requested), unset(Requested, values); an
\* error of apply is returned at once.
RequestedEnter(t) ==
    /\ call[t].pc = "enter"
    /\ IF Caps.bypass
       THEN /\ call' = [call EXCEPT ![t].pc = "callback"]
            /\ UNCHANGED <<Caps, proc, windows, faults>>
       ELSE /\ CanLock(Caps)
            /\ \E fault \in ApplyFaults :
                 /\ FaultOK(fault)
                 /\ LET c1 == set(Lock(Caps), Requested, call[t].values)
                        a == apply(c1, proc, Requested, fault)
                    IN  /\ proc' = a.p
                        /\ faults' = faults + Count(fault)
                        /\ IF a.err # "nil"
                           THEN /\ Caps' = DeferredUnlock(a.c)
                                /\ call' = [call EXCEPT ![t] = Done(a.err)]
                                /\ UNCHANGED windows
                           ELSE /\ Caps' = unset(a.c, Requested, call[t].values)
                                /\ call' = [call EXCEPT ![t].pc = "callback",
                                                        ![t].locked = Column(Caps, Required),
                                                        ![t].elevOn = thread[t]]
                                /\ windows' = windows + 1
    /\ UNCHANGED <<paranoid, thread, query, init>>

\* errCb := cb(): the callback runs, sees the effective set of the process
\* and returns nil or an error of its own.
Callback(t) ==
    /\ call[t].pc = "callback"
    /\ \E e \in {"nil", "errCb"} :
         call' = [call EXCEPT ![t].pc = "restore",
                              ![t].errCb = e,
                              ![t].seen = proc.eff,
                              ![t].cbs = call[t].cbs + 1]
    /\ UNCHANGED <<Caps, proc, paranoid, thread, query, init, windows, faults>>

\* After the callback (l. 134-141): in bypass return errCb; else
\* apply(Unprivileged), return its error or errCb; the deferred Unlock runs.
Restore(t) ==
    /\ call[t].pc = "restore"
    /\ IF Caps.bypass
       THEN /\ call' = [call EXCEPT ![t] = Done(call[t].errCb)]
            /\ UNCHANGED <<Caps, proc, windows, faults>>
       ELSE \E fault \in ApplyFaults :
                 /\ FaultOK(fault)
                 /\ LET a == apply(Caps, proc, RestoreRing, fault)
                    IN  /\ proc' = a.p
                        /\ faults' = faults + Count(fault)
                        /\ Caps' = DeferredUnlock(a.c)
                        /\ call' = [call EXCEPT ![t] = Done(ReturnValue(a.err, call[t].errCb))]
                        /\ windows' = IF a.err = "nil" THEN windows - 1 ELSE windows
    /\ UNCHANGED <<paranoid, thread, query, init>>

RunPrivileged(t) ==
    /\ call[t].op = "Privileged"
    /\ RingEnter(t, Privileged) \/ Callback(t) \/ Restore(t)

RunRequired(t) ==
    /\ call[t].op = "Required"
    /\ RingEnter(t, Required) \/ Callback(t) \/ Restore(t)

RunRequested(t) ==
    /\ call[t].op = "Requested"
    /\ RequestedEnter(t) \/ Callback(t) \/ Restore(t)

\* Require(values...) called by t: waits for the lock unless in bypass.
CallRequire_noWait(t) ==
    /\ call[t].op = "Require"
    /\ call[t].pc = "enter"
    /\ Caps' = Require(Caps, call[t].values)
    /\ call' = [call EXCEPT ![t] = Done("nil")]
    /\ UNCHANGED <<proc, paranoid, thread, query, init, windows, faults>>

CallRequire(t) ==
    /\ call[t].op = "Require"
    /\ call[t].pc = "enter"
    /\ Caps.bypass \/ CanLock(Caps)
    /\ Caps' = Require(Caps, call[t].values)
    /\ call' = [call EXCEPT ![t] = Done("nil")]
    /\ UNCHANGED <<proc, paranoid, thread, query, init, windows, faults>>

\* Unrequire(values...) called by t.
CallUnrequire(t) ==
    /\ call[t].op = "Unrequire"
    /\ call[t].pc = "enter"
    /\ Caps.bypass \/ CanLock(Caps)
    /\ Caps' = Unrequire(Caps, call[t].values)
    /\ call' = [call EXCEPT ![t] = Done("nil")]
    /\ UNCHANGED <<proc, paranoid, thread, query, init, windows, faults>>

\* The method has returned; the caller goes on.
Return(t) ==
    /\ call[t].pc = "done"
    /\ call' = [call EXCEPT ![t] = Idle]
    /\ UNCHANGED <<Caps, proc, paranoid, thread, query, init, windows, faults>>

Next ==
    \/ \E bypass \in BOOLEAN : NewCapabilities(bypass)
    \/ \E t \in Callers :
         \/ Invoke(t)
         \/ RunPrivileged(t)
         \/ RunRequired(t)
         \/ RunRequested(t)
         \/ CallRequire(t)
         \/ CallUnrequire(t)
         \/ Return(t)

Spec == Init /\ [][Next]_vars

\* ---------------------------------------------------------- vocabulary

RunOps == {"Privileged", "Required", "Requested"}

\* t is inside a run-in-ring call of a manager that is not in bypass.
Running(t) == call[t].op \in RunOps /\ ~Caps.bypass

\* t's callback is running, or has run and the restoring apply is due.
InWindow(t) == call[t].pc \in {"callback", "restore"}

\* This step is the return of t's call.
Returns(t) == call[t].pc # "done" /\ call'[t].pc = "done"

\* NewCapabilities(false) has returned nil and was the last initialization.
Initialized == Ready /\ ~Caps.bypass

\* ------------------------------------------------------------------ C1

\* C1 (as stated): in non-bypass mode the counter that goes up when a call
\* has applied its ring and down when it has applied Unprivileged never
\* exceeds 1, and no two callbacks run at the same time.
C1_Original ==
    ~Caps.bypass =>
        /\ windows <= 1
        /\ Cardinality({t \in Callers : call[t].pc = "callback"}) <= 1

\* C1 (amended): in non-bypass mode at most one call is between the return
\* of its elevating apply and the return of its restoring apply (the counter
\* goes down when the restoring apply returns, with or without an error),
\* and no two callbacks run at the same time.
C1_OneWindow ==
    ~Caps.bypass => Cardinality({t \in Callers : InWindow(t)}) <= 1

\* A callback runs under the lock while another run-in-ring call waits.
C1_Witness ==
    /\ ~Caps.bypass
    /\ \E t, u \in Callers :
         /\ t # u
         /\ call[t].pc = "callback"
         /\ call[u].pc = "enter" /\ call[u].op \in RunOps

\* ------------------------------------------------------------------ C2

\* C2 (as stated): whenever no run-in-ring call is in progress after a
\* successful Initialize(false), the effective set is empty.
C2_Original ==
    (Initialized /\ \A t \in Callers : ~InWindow(t)) => proc.eff = {}

\* C2 (amended): a run-in-ring call in non-bypass mode that returns nil or
\* the callback's error (its restoring apply succeeded) leaves the effective
\* set empty, and whenever every call that applied its ring has since
\* applied Unprivileged the effective set is empty; a failed restoring apply
\* leaves the ring of the callback active.
C2_RestoredOnReturn ==
    /\ [](Initialized /\ windows = 0 => proc.eff = {})
    /\ [][\A t \in Callers :
            (Running(t) /\ Returns(t) /\ call'[t].err \in {"nil", "errCb"})
                => proc'.eff = {}]_vars

\* A Privileged call has returned the callback's error and nothing is
\* effective any more.
C2_Witness ==
    /\ Initialized
    /\ windows = 0
    /\ proc.eff = {}
    /\ \E t \in Callers : call[t].pc = "done" /\ call[t].err = "errCb"

\* ------------------------------------------------------------------ C3

\* C3: when a run-in-ring call of a manager that is not in bypass returns
\* the callback's own error, its restoring apply(Unprivileged) has
\* succeeded: the snapshot and the effective set of the process are empty
\* and the lock is free.
C3_ErrorAfterRestore ==
    [][\A t \in Callers :
         (Running(t) /\ Returns(t) /\ call'[t].err = "errCb")
             => /\ call[t].pc = "restore"
                /\ proc'.eff = {}
                /\ ~Caps'.have.nil /\ Caps'.have.eff = {}
                /\ Caps'.lock = "unlocked"]_vars

\* A run-in-ring call has returned the callback's error in non-bypass mode.
C3_Witness ==
    /\ Initialized
    /\ \E t \in Callers : call[t].pc = "done" /\ call[t].err = "errCb"

\* ------------------------------------------------------------------ C4

\* C4 (as stated): when RunRequested(fn, X) returns, with success or with
\* any error, no x of X is in the Requested column.
C4_RequestedCleared ==
    [][\A t \in Callers :
         (call[t].op = "Requested" /\ ~Caps.bypass /\ Returns(t))
             => Column(Caps', Requested) \cap call[t].values = {}]_vars

\* ------------------------------------------------------------------ C5

\* C5 (as stated): in non-bypass mode the effective set the callback of
\* RunRequested(fn, X) sees is exactly X.
C5_SeesExactlyRequested ==
    \A t \in Callers :
        (call[t].op = "Requested" /\ ~Caps.bypass /\ call[t].pc = "restore")
            => call[t].seen = call[t].values

\* ------------------------------------------------------------------ C6

\* C6: in non-bypass mode the callback of RunRequired sees an effective set
\* equal to the Required column as it stood when the call took the lock.
C6_SeesRequiredColumn ==
    \A t \in Callers :
        (call[t].op = "Required" /\ ~Caps.bypass /\ call[t].pc = "restore")
            => call[t].seen = call[t].locked

\* The callback of RunRequired has seen SYS_ADMIN, which a Require added to
\* the base of the ring, or BPF, which it did not take away.
C6_Witness ==
    \E t \in Callers :
        /\ call[t].op = "Required" /\ ~Caps.bypass /\ call[t].pc = "restore"
        /\ {SYS_ADMIN, BPF} \subseteq call[t].seen

\* ------------------------------------------------------------------ C7

\* C7: after Initialize(false) every known capability is in the Privileged
\* column and none is in the Unprivileged column, whatever calls were made.
C7_FixedColumns ==
    Initialized =>
        /\ DOMAIN Caps.all = Capability
        /\ \A v \in Capability :
             Caps.all[v][Privileged] /\ ~Caps.all[v][Unprivileged]

\* Require has changed the Required column and a call has returned.
C7_Witness ==
    /\ Initialized
    /\ {SYS_ADMIN, BPF} \subseteq Column(Caps, Required)
    /\ \E t \in Callers : call[t].pc = "done"

\* ------------------------------------------------------------------ C8

\* C8: in bypass mode no step of a caller changes the manager (table, lock,
\* snapshot) or the process state or asks libcap for anything; Require and
\* Unrequire return nil, and a run-in-ring call returns only after its
\* callback has run once, with the callback's result.
C8_BypassPassthrough ==
    [][Caps.bypass =>
         /\ call' # call => UNCHANGED <<Caps, proc, faults, windows>>
         /\ \A t \in Callers :
              Returns(t) =>
                  IF call[t].op \in RunOps
                  THEN /\ call[t].pc = "restore"
                       /\ call[t].cbs = 1
                       /\ call'[t].err = call[t].errCb
                  ELSE call'[t].err = "nil"]_vars

\* In bypass mode one callback has failed and returned while another runs.
C8_Witness ==
    /\ Caps.bypass
    /\ \E t, u \in Callers :
         /\ call[t].pc = "done" /\ call[t].err = "errCb"
         /\ call[u].pc = "callback"

\* ------------------------------------------------------------------ C9

\* C9 (as stated): NewCapabilities(false) on a manager that Initialize(false)
\* has set up returns alreadyInitialized and changes neither the manager nor
\* the process state.
C9_SecondInitializeFails ==
    [][(Initialized /\ init'.calls = init.calls + 1 /\ ~init'.bypass)
          => /\ init'.err = "alreadyInitialized"
             /\ UNCHANGED <<Caps, proc>>]_vars

\* ------------------------------------------------------------------ C10

\* C10 (as stated): when a libcap call of Initialize(false) fails (GetPID,
\* DropBound, SetProc, or one of the final apply), Initialize returns an error.
C10_InitFaultPropagates ==
    init.fault # "none" => init.err # "nil"

\* ------------------------------------------------------------------ C11

ApplyErrors == {"couldNotGetProc", "couldNotSetProc"}

\* C11: a run-in-ring call of a manager that is not in bypass leaves its
\* entry either with its ring applied, to run the callback, or, when the
\* elevating apply failed, by returning the error of apply without having
\* run the callback and with the process state as it was before the call.
C11_FailedElevationChangesNothing ==
    [][\A t \in Callers :
         (Running(t) /\ call[t].pc = "enter" /\ call'[t].pc # "enter")
             => \/ /\ call'[t].pc = "callback"
                   /\ proc'.eff = Caps'.have.eff
                \/ /\ call'[t].pc = "done"
                   /\ call'[t].err \in ApplyErrors
                   /\ call[t].cbs = 0
                   /\ proc' = proc]_vars

\* A run-in-ring call has returned the error of its elevating apply: no
\* window was opened and nothing is effective.
C11_Witness ==
    /\ Initialized
    /\ windows = 0
    /\ proc.eff = {}
    /\ \E t \in Callers : call[t].pc = "done" /\ call[t].err \in ApplyErrors

\* ------------------------------------------------------------------ C12

\* C12: in non-bypass mode Require(X) sets and Unrequire(X) clears the
\* Required entry of every x of X and changes no other entry of the table
\* and nothing of the process state.
C12_OnlyRequiredEntries ==
    [][\A t \in Callers :
         (call[t].op \in {"Require", "Unrequire"} /\ ~Caps.bypass /\ Returns(t))
             => /\ proc' = proc
                /\ DOMAIN Caps'.all = DOMAIN Caps.all
                /\ \A v \in DOMAIN Caps.all, r \in Rings :
                     Caps'.all[v][r] =
                        IF v \in call[t].values /\ r = Required
                        THEN call[t].op = "Require"
                        ELSE Caps.all[v][r]]_vars

\* Unrequire has taken SYS_ADMIN out of the base of the Required ring of a
\* process without BPF, and nothing is effective.
C12_Witness ==
    /\ Initialized
    /\ BPF \notin proc.perm
    /\ SYS_ADMIN \notin Column(Caps, Required)
    /\ proc.eff = {}
    /\ \E t \in Callers : call[t].pc = "done"

\* ------------------------------------------------------------------ C13

\* C13: in non-bypass mode, while a run-in-ring call is between its
\* elevating apply and its return the lock is held and the Required column
\* is the one the call found when it took the lock: no Require or Unrequire
\* of another caller has taken effect.
C13_TableFrozenInWindow ==
    \A t \in Callers :
        (Running(t) /\ InWindow(t))
            => /\ Caps.lock = "locked"
               /\ Column(Caps, Required) = call[t].locked

\* A callback runs while another caller's Require waits for the lock.
C13_Witness ==
    /\ ~Caps.bypass
    /\ \E t, u \in Callers :
         /\ t # u
         /\ call[t].pc = "callback" /\ call[t].op \in RunOps
         /\ call[u].pc = "enter" /\ call[u].op = "Require"

\* ------------------------------------------------------------------ C19

\* C19: when a libcap call fails in the restoring apply of a run-in-ring
\* call in non-bypass mode, the call returns the error of apply, whatever
\* the callback returned, the lock is free, and the process state is the
\* one the callback ran with.
C19_FailedRestoreKeepsRing ==
    [][\A t \in Callers :
         (Running(t) /\ call[t].pc = "restore" /\ Returns(t) /\ faults' > faults)
             => /\ call'[t].err \in ApplyErrors
                /\ Caps'.lock = "unlocked"
                /\ proc' = proc
                /\ proc'.eff = call[t].seen]_vars

\* A call has returned the error of its restoring apply: its ring is still
\* effective although no call is in progress.
C19_Witness ==
    /\ Initialized
    /\ windows = 1
    /\ proc.eff # {}
    /\ \A t \in Callers : ~InWindow(t)
    /\ \E t \in Callers : call[t].pc = "done" /\ call[t].err \in ApplyErrors

\* ------------------------------------ the bootstrap of the Required ring

\* Contents of /proc/sys/kernel/perf_event_paranoid the bootstrap is run
\* against: an unreadable file, the levels -1 to 4, and two files that do
\* not parse.
BootFiles ==
    {[ok |-> FALSE, data |-> <<>>],
     [ok |-> TRUE, data |-> <<"-", "1", "\n">>],
     [ok |-> TRUE, data |-> <<"0", "\n">>],
     [ok |-> TRUE, data |-> <<"1", "\n">>],
     [ok |-> TRUE, data |-> <<"2", "\n">>],
     [ok |-> TRUE, data |-> <<"3", "\n">>],
     [ok |-> TRUE, data |-> <<"4", "\n">>],
     [ok |-> TRUE, data |-> <<"x", "\n">>],
     [ok |-> TRUE, data |-> <<>>]}

InitBoot ==
    /\ Caps = ZeroCaps
    /\ proc \in {[eff |-> P, perm |-> P, bound |-> Capability] : P \in PermittedSets}
    /\ paranoid \in BootFiles
    /\ call = [t \in Callers |-> Idle]
    /\ init = [calls |-> 0, bypass |-> FALSE, err |-> "none", fault |-> "none"]
    /\ windows = 0
    /\ faults = 0
    /\ thread = [t \in Callers |-> 1]
    /\ query = NoQuery

\* Startup only: no caller has entered the package yet.
NextBoot == \E bypass \in BOOLEAN : NewCapabilities(bypass)

SpecBoot == InitBoot /\ [][NextBoot]_vars

\* What getKernelPerfEventParanoidValue makes of the file of this behaviour.
Level == getKernelPerfEventParanoidValue(paranoid)

\* The file that holds level 4.
ReadableFour == [ok |-> TRUE, data |-> <<"4", "\n">>]

\* ------------------------------------------------------------------ C14

\* C14: after Initialize(false) on a system whose perf_event_paranoid reads
\* a value greater than 2, the Required ring is exactly {IPC_LOCK,
\* SYS_RESOURCE, SYS_ADMIN}, whether or not BPF is permitted.
C14_ParanoidStopsAtAdmin ==
    (Initialized /\ Level.err = "nil" /\ Level.val > 2)
        => Column(Caps, Required) = {IPC_LOCK, SYS_RESOURCE, SYS_ADMIN}

\* ------------------------------------------------------------------ C15

\* C15: after Initialize(false) on a system whose perf_event_paranoid reads
\* a value of 2 or less, the Required ring is exactly {IPC_LOCK,
\* SYS_RESOURCE, BPF, PERFMON} when BPF is permitted and exactly {IPC_LOCK,
\* SYS_RESOURCE, SYS_ADMIN} when it is not.
C15_BootstrapByBPF ==
    (Initialized /\ Level.err = "nil" /\ Level.val <= 2)
        => Column(Caps, Required) =
              IF BPF \in proc.perm
              THEN {IPC_LOCK, SYS_RESOURCE, BPF, PERFMON}
              ELSE {IPC_LOCK, SYS_RESOURCE, SYS_ADMIN}

\* Initialize(false) has returned nil at level 2 with BPF permitted.
C15_Witness ==
    /\ Initialized
    /\ Level.err = "nil" /\ Level.val = 2
    /\ BPF \in proc.perm
    /\ Column(Caps, Required) = {IPC_LOCK, SYS_RESOURCE, BPF, PERFMON}

\* ------------------------------------------------------------------ C16

\* C16: when perf_event_paranoid cannot be read or parsed, Initialize(false)
\* fails only if a libcap call it depends on fails, and when it returns nil
\* the Required ring is the one Initialize(false) builds, for the same
\* permitted set, from a file that reads 4.
C16_UnreadableIsFour ==
    (init.calls > 0 /\ ~init.bypass /\ Level.err # "nil")
        => /\ init.fault \in {"none", "dropBound"} => init.err = "nil"
           /\ init.err = "nil" =>
                Column(Caps, Required) =
                   Column(initialize(ZeroCaps, proc, FALSE, ReadableFour, "none").c,
                          Required)

\* Initialize(false) has returned nil although the file could not be read.
C16_Witness ==
    /\ Initialized
    /\ ~paranoid.ok
    /\ Level.val = MaxParanoiaLevel
    /\ SYS_ADMIN \in Column(Caps, Required)

\* ------------------------------------------------------- goroutines and
\* OS threads

\* None of the methods calls runtime.LockOSThread, so the Go scheduler may
\* carry the goroutine of a caller on to another OS thread at any point.
Reschedule(t) ==
    /\ \E m \in Threads \ {thread[t]} : thread' = [thread EXCEPT ![t] = m]
    /\ UNCHANGED <<Caps, proc, paranoid, call, init, windows, faults, query>>

NextThreads ==
    \/ Next
    \/ \E t \in Callers : Reschedule(t)

SpecThreads == Init /\ [][NextThreads]_vars

\* ------------------------------------------------------------------ C17

\* C17: in non-bypass mode the callback and the restoring apply of a
\* run-in-ring call run on the OS thread its elevating apply ran on.
C17_SameThread ==
    [][\A t \in Callers :
         (Running(t) /\ InWindow(t) /\ call'[t].pc # call[t].pc)
             => thread[t] = call[t].elevOn]_vars

\* ------------------------------------------------------------------ C18

\* ReqByString(values...) called by some caller: a standalone function of
\* its arguments and cap.MaxBits().
CallReqByString(values) ==
    /\ LET r == ReqByString(values)
       IN  query' = [asked |-> TRUE, values |-> values, caps |-> r.caps, err |-> r.err]
    /\ UNCHANGED <<Caps, proc, paranoid, call, init, windows, faults, thread>>

NextNames ==
    \/ \E bypass \in BOOLEAN : NewCapabilities(bypass)
    \/ \E values \in NameInputs : CallReqByString(values)

SpecNames == Init /\ [][NextNames]_vars

\* The positions of the arguments that are the name of no capability.
Unknown(values) ==
    {i \in 1 .. Len(values) : \A v \in Capability : String(v) # values[i]}

\* C18: ReqByString returns, with no error, one capability for every
\* argument, in the order of the arguments, each having the argument as its
\* name, when every argument names a capability; otherwise it returns no
\* values and the error couldNotFindCapability naming the first argument
\* that names none.  The call changes nothing of the manager or the process.
C18_ResolveInOrder ==
    /\ [](query.asked =>
            IF Unknown(query.values) = {}
            THEN /\ query.err = NoError
                 /\ Len(query.caps) = Len(query.values)
                 /\ \A i \in 1 .. Len(query.values) :
                      /\ query.caps[i] \in Capability
                      /\ String(query.caps[i]) = query.values[i]
            ELSE /\ query.caps = <<>>
                 /\ LET first == CHOOSE i \in Unknown(query.values) :
                                    \A j \in Unknown(query.values) : i <= j
                    IN  query.err = couldNotFindCapability(query.values[first]))
    /\ [][query' # query => UNCHANGED <<Caps, proc, call, init>>]_vars

\* ReqByString has failed on its second argument after the manager was
\* initialized.
C18_Witness ==
    /\ Initialized
    /\ query.asked
    /\ Len(query.values) = 2
    /\ Unknown(query.values) = {2}
    /\ query.err.kind = "couldNotFindCapability"

\* ------------------------------------------------------- fair scheduling

\* The steps of the call caller t is in.
Step(t) ==
    \/ RunPrivileged(t)
    \/ RunRequired(t)
    \/ RunRequested(t)
    \/ CallRequire(t)
    \/ CallUnrequire(t)

\* Every goroutine is scheduled again and again, callbacks return, and a
\* goroutine waiting in c.lock.Lock() is not passed over for ever
\* (sync.Mutex hands the lock to a starving waiter).
Fairness == \A t \in Callers : SF_vars(Step(t))

SpecLive == Init /\ [][Next]_vars /\ Fairness

\* ------------------------------------------------------------------ C20

InCall(t) == call[t].pc \in {"enter", "callback", "restore"}

\* C20: under fair scheduling every call of Privileged, Required,
\* Requested, Require and Unrequire that was entered returns, and whenever
\* an initialized manager has no call between its elevating apply and its
\* return the lock is free.
C20_EveryCallReturns ==
    /\ \A t \in Callers : InCall(t) ~> (call[t].pc = "done")
    /\ []((Initialized /\ \A t \in Callers : ~InWindow(t)) => Caps.lock = "unlocked")

\* A run-in-ring call has returned an error while another caller waits at
\* the entry of its own call, and the lock is free.
C20_Witness ==
    /\ Initialized
    /\ Caps.lock = "unlocked"
    /\ \E t, u \in Callers :
         /\ call[t].pc = "done" /\ call[t].err # "nil"
         /\ call[u].pc = "enter"

====
